---- MODULE Spec2Model ----
(***************************************************************************)
(* The withdrawal state machine of stellar-sep-6 (src/src/transfer-server.ts *)
(* lines 223-450): the State and Action unions, initialState and the        *)
(* reducer stateMachine(state, action), driven by a caller that threads one *)
(* State value through a stream of actions.                                 *)
(*                                                                          *)
(* A JavaScript object is modelled as a function from the property names it *)
(* owns to their values, so that `"details" in state`, the object spread    *)
(* `...state` and a property that is present with the value undefined keep  *)
(* their meaning.  Every property value other than `step` and `type` is a   *)
(* record with a `kind` field, so that any two values can be compared.      *)
(***************************************************************************)
EXTENDS Naturals, FiniteSets, Sequences, TLC

\* The properties of the State, Action, details, payload and error objects and
\* of the withdraw request, response and result, each with the object it belongs
\* to.  Every record below lists its properties in this order.
Properties ==
  [ asset |-> {"Action", "details"},
    asset_code |-> {"request"},
    authToken |-> {"State"},
    authorization |-> {"request"},
    data |-> {"response", "result"},
    details |-> {"State"},
    formValues |-> {"Action"},
    id |-> {"payload"},
    kind |-> {"details", "payload"},
    kyc |-> {"State"},
    kycStatus |-> {"State"},
    message |-> {"response", "error"},
    method |-> {"Action", "details"},
    rejection |-> {"State"},
    response |-> {"Action", "call", "error"},
    seq |-> {"call"},
    status |-> {"response", "error"},
    step |-> {"State", "error"},
    throws |-> {"error"},
    token |-> {"Action"},
    transferServer |-> {"Action", "details"},
    type |-> {"Action", "call", "error", "request", "result"},
    webauth |-> {"Action", "State"},
    withdrawal |-> {"State"},
    withdrawalFormValues |-> {"details"} ]

PropertiesOf(object) == {name \in DOMAIN Properties : object \in Properties[name]}

\* ------------------------------------------------------------------ bounds
NumAssets == 2
NumTokens == 2
NumResponses == 1
\* size of the orchestrator model: the status calls of one attempt and the
\* largest number of them an orchestrator under study keeps in flight
MaxCalls == 3
MaxInFlight == 2

\* ------------------------------------------------------------------ values
\* JavaScript's undefined.
Undefined == [kind |-> "undefined"]

Assets == {[id |-> i, kind |-> "asset"] : i \in 1..NumAssets}
\* one set of form values, one withdrawal method, one transfer server and one
\* webauth challenge stand for all
FormValues == {[id |-> 1, kind |-> "formValues"]}
Methods == {[id |-> 1, kind |-> "method"]}
TransferServers == {[id |-> 1, kind |-> "transferServer"]}
\* string tokens "tok1", "tok2", ...
Tokens == {[id |-> i, kind |-> "token"] : i \in 1..NumTokens}
\* WebauthData & { transaction: Transaction }
Challenges == {[id |-> 1, kind |-> "webauth"]}
InteractiveResponses == {[id |-> i, kind |-> "KYCInteractiveResponse"] : i \in 1..NumResponses}
PendingResponses == {[id |-> i, kind |-> "KYCStatusResponse.pending"] : i \in 1..NumResponses}
DeniedResponses == {[id |-> i, kind |-> "KYCStatusResponse.denied"] : i \in 1..NumResponses}
SuccessResponses == {[id |-> i, kind |-> "WithdrawalSuccessResponse"] : i \in 1..NumResponses}

\* interface GeneralWithdrawalDetails
GeneralWithdrawalDetails ==
  { [asset |-> a, kind |-> "details", method |-> m, transferServer |-> t,
     withdrawalFormValues |-> f] :
      a \in Assets, f \in FormValues, m \in Methods, t \in TransferServers }

Steps ==
  { "initial", "before-webauth", "after-webauth", "before-interactive-kyc",
    "pending-kyc", "after-denied-kyc", "after-successful-kyc",
    "after-tx-submission" }

\* ------------------------------------------------------- object primitives
\* `name in obj`
In(name, obj) == name \in DOMAIN obj

\* `obj.name`: undefined when the object does not own the property
Get(obj, name) == IF In(name, obj) THEN obj[name] ELSE Undefined

\* `{ ...obj, <props> }`
Spread(obj, props) ==
  [name \in DOMAIN obj \cup DOMAIN props |->
     IF name \in DOMAIN props THEN props[name] ELSE obj[name]]

\* truthiness of a value: the objects and non-empty strings of the model are
\* truthy, undefined is falsy
Truthy(v) == v # Undefined

\* ------------------------------------------------------- action constructors
backToStart == [type |-> "back-to-start"]

saveInitFormData(transferServer, asset, method, formValues, webauth) ==
  [asset |-> asset, formValues |-> formValues, method |-> method,
   transferServer |-> transferServer, type |-> "save-init-form", webauth |-> webauth]

setAuthToken(token) == [token |-> token, type |-> "set-auth-token"]

startInteractiveKYC(response) == [response |-> response, type |-> "start-interactive-kyc"]

pendingKYC(response) == [response |-> response, type |-> "kyc-pending"]

failedKYC(response) == [response |-> response, type |-> "kyc-denied"]

successfulKYC(response) == [response |-> response, type |-> "kyc-successful"]

transactionSubmitted == [type |-> "after-tx-submission"]

\* an action whose tag is outside the Action union (reaches `default:`)
foreignAction == [type |-> "foreign-action"]

initialState == [step |-> "initial"]

\* ------------------------------------------------------------------ errors
\* throw Error("Cannot set auth token at this time.")
CannotSetAuthToken == [throws |-> "Cannot set auth token at this time."]

\* throw Error(`Cannot perform ${action.type} in state ${state.step}.`)
CannotPerform(type, step) == [step |-> step, throws |-> "Cannot perform", type |-> type]

\* throw Error(`Unexpected action: ${action.type}`)
UnexpectedAction(type) == [throws |-> "Unexpected action", type |-> type]

Thrown(r) == In("throws", r)

\* ----------------------------------------------------------------- reducer
\* a details literal that leaves the form values out
AssembleDetails_NoFormValues(a) ==
  [asset |-> a.asset, kind |-> "details", method |-> a.method,
   transferServer |-> a.transferServer, withdrawalFormValues |-> Undefined]

\* the details literal of both save-init-form branches
AssembleDetails(a) ==
  [asset |-> a.asset, kind |-> "details", method |-> a.method,
   transferServer |-> a.transferServer, withdrawalFormValues |-> a.formValues]

\* the guard without its `state.step === "initial"` half
NoDetailsOrInitial_OnlyIn(s) == ~In("details", s)

\* the guard shared by the four KYC cases
NoDetailsOrInitial(s) == ~In("details", s) \/ s.step = "initial"

\* back-to-start as a spread that only resets the step
BackToStartCase_Spread(s) ==
  Spread([details |-> Undefined], Spread(s, [step |-> "initial"]))

\* back-to-start that never carries the details over
BackToStartCase_Blank(s) == [details |-> Undefined, step |-> "initial"]

\* back-to-start that takes the details only from a state past `initial`
BackToStartCase_NotInitial(s) ==
  [details |-> IF In("details", s) /\ s.step # "initial" THEN s.details ELSE Undefined,
   step |-> "initial"]

BackToStartCase(s) ==
  [details |-> IF In("details", s) THEN s.details ELSE Undefined, step |-> "initial"]

\* save-init-form that waits for an auth token also without a challenge
SaveInitFormCase_AlwaysBefore(a) ==
  [details |-> AssembleDetails(a), step |-> "before-webauth", webauth |-> a.webauth]

SaveInitFormCase(a) ==
  IF Truthy(a.webauth)
  THEN [details |-> AssembleDetails(a), step |-> "before-webauth", webauth |-> a.webauth]
  ELSE [authToken |-> Undefined, details |-> AssembleDetails(a), step |-> "after-webauth"]

\* set-auth-token without its step guard
SetAuthTokenCase_Unguarded(s, a) ==
  Spread(s, [authToken |-> a.token, step |-> "after-webauth"])

\* set-auth-token refused only at the start
SetAuthTokenCase_NotInitial(s, a) ==
  IF s.step = "initial"
  THEN CannotSetAuthToken
  ELSE Spread(s, [authToken |-> a.token, step |-> "after-webauth"])

SetAuthTokenCase(s, a) ==
  IF s.step # "before-webauth"
  THEN CannotSetAuthToken
  ELSE Spread(s, [authToken |-> a.token, step |-> "after-webauth"])

StartInteractiveKYCCase(s, a) ==
  IF NoDetailsOrInitial(s)
  THEN CannotPerform(a.type, s.step)
  ELSE [details |-> s.details, kyc |-> a.response, step |-> "before-interactive-kyc"]

\* kyc-pending that checks the step only and reads `state.details` as it is
KYCPendingCase_StepOnly(s, a) ==
  IF s.step = "initial"
  THEN CannotPerform(a.type, s.step)
  ELSE [details |-> Get(s, "details"), kycStatus |-> a.response, step |-> "pending-kyc"]

\* kyc-pending that treats after-denied-kyc as final
KYCPendingCase_DeniedIsFinal(s, a) ==
  IF NoDetailsOrInitial(s) \/ s.step = "after-denied-kyc"
  THEN CannotPerform(a.type, s.step)
  ELSE [details |-> s.details, kycStatus |-> a.response, step |-> "pending-kyc"]

\* kyc-pending that leaves an after-denied-kyc state as it is
KYCPendingCase_KeepsDenied(s, a) ==
  IF NoDetailsOrInitial(s)
  THEN CannotPerform(a.type, s.step)
  ELSE IF s.step = "after-denied-kyc" THEN s
  ELSE [details |-> s.details, kycStatus |-> a.response, step |-> "pending-kyc"]

KYCPendingCase(s, a) ==
  IF NoDetailsOrInitial(s)
  THEN CannotPerform(a.type, s.step)
  ELSE [details |-> s.details, kycStatus |-> a.response, step |-> "pending-kyc"]

\* kyc-denied as a spread over the current state
KYCDeniedCase_Spread(s, a) ==
  IF NoDetailsOrInitial(s)
  THEN CannotPerform(a.type, s.step)
  ELSE Spread(s, [rejection |-> a.response, step |-> "after-denied-kyc"])

KYCDeniedCase(s, a) ==
  IF NoDetailsOrInitial(s)
  THEN CannotPerform(a.type, s.step)
  ELSE [details |-> s.details, rejection |-> a.response, step |-> "after-denied-kyc"]

\* kyc-successful with the step of the case above it
KYCSuccessfulCase_WrongStep(s, a) ==
  IF NoDetailsOrInitial(s)
  THEN CannotPerform(a.type, s.step)
  ELSE [details |-> s.details, step |-> "after-denied-kyc", withdrawal |-> a.response]

\* kyc-successful that keeps the auth token of the current state
KYCSuccessfulCase_KeepToken(s, a) ==
  IF NoDetailsOrInitial(s)
  THEN CannotPerform(a.type, s.step)
  ELSE [authToken |-> Get(s, "authToken"), details |-> s.details,
        step |-> "after-successful-kyc", withdrawal |-> a.response]

KYCSuccessfulCase(s, a) ==
  IF NoDetailsOrInitial(s)
  THEN CannotPerform(a.type, s.step)
  ELSE [details |-> s.details, step |-> "after-successful-kyc", withdrawal |-> a.response]

\* after-tx-submission guarded like the KYC cases
AfterTxSubmissionCase_Guarded(s) ==
  IF NoDetailsOrInitial(s)
  THEN CannotPerform("after-tx-submission", s.step)
  ELSE [step |-> "after-tx-submission"]

\* after-tx-submission as a spread that only sets the step
AfterTxSubmissionCase_Spread(s) == Spread(s, [step |-> "after-tx-submission"])

AfterTxSubmissionCase(s) == [step |-> "after-tx-submission"]

\* a reducer whose default case returns the current state
stateMachine_DefaultReturnsState(s, a) ==
  CASE a.type = "back-to-start" -> BackToStartCase(s)
    [] a.type = "save-init-form" -> SaveInitFormCase(a)
    [] a.type = "set-auth-token" -> SetAuthTokenCase(s, a)
    [] a.type = "start-interactive-kyc" -> StartInteractiveKYCCase(s, a)
    [] a.type = "kyc-pending" -> KYCPendingCase(s, a)
    [] a.type = "kyc-denied" -> KYCDeniedCase(s, a)
    [] a.type = "kyc-successful" -> KYCSuccessfulCase(s, a)
    [] a.type = "after-tx-submission" -> AfterTxSubmissionCase(s)
    [] OTHER -> s

\* stateMachine(state, action): the next state, or the error it throws
stateMachine(s, a) ==
  CASE a.type = "back-to-start" -> BackToStartCase(s)
    [] a.type = "save-init-form" -> SaveInitFormCase(a)
    [] a.type = "set-auth-token" -> SetAuthTokenCase(s, a)
    [] a.type = "start-interactive-kyc" -> StartInteractiveKYCCase(s, a)
    [] a.type = "kyc-pending" -> KYCPendingCase(s, a)
    [] a.type = "kyc-denied" -> KYCDeniedCase(s, a)
    [] a.type = "kyc-successful" -> KYCSuccessfulCase(s, a)
    [] a.type = "after-tx-submission" -> AfterTxSubmissionCase(s)
    [] OTHER -> UnexpectedAction(a.type)

\* a set-auth-token case that assigns step and authToken to `state` itself
ArgumentAfter_InPlace(s, a) ==
  IF a.type = "set-auth-token" /\ s.step = "before-webauth"
  THEN Spread(s, [authToken |-> a.token, step |-> "after-webauth"])
  ELSE s

\* The object passed as `state`, as it is when stateMachine(state, action) has
\* returned or thrown: no case assigns to a property of `state`, of
\* `state.details` or of `action`; every result is a new object literal, and the
\* spread of set-auth-token copies into a new object.
ArgumentAfter(s, a) == s

\* ------------------------------------------------------------ state machine
\* state:   the State value the caller threads through the flow
\* prev:    the State value passed to the last stateMachine call
\* action:  the action passed to the last stateMachine call
\* result:  what the last call returned or threw
\* attempt: the details assembled by the last save-init-form of the attempt
\*          in progress (Undefined when there is none)
\* stale:   the values that the state held when the last after-tx-submission
\*          was applied and that no action has carried since
\* passed:  the object passed as `state` to the last call, as that call left it
\* httpRequest:  the headers and parameters of the last withdraw request
\* httpResponse: the anchor's answer to it
\* outcome: what the last withdraw call returned or threw
\* inflight: the orchestrator's status calls that the anchor has answered and
\*          whose answers have not yet been fed to the reducer
\* anchor:  the KYC status the anchor reports to a status call
\* sent:    the number of status calls issued for the attempt
\* limit:   the number of calls the orchestrator keeps in flight at a time
VARIABLES state, prev, action, result, attempt, stale, passed,
          httpRequest, httpResponse, outcome,
          inflight, anchor, sent, limit

reducerVars == <<state, prev, action, result, attempt, stale, passed>>

withdrawVars == <<httpRequest, httpResponse, outcome>>

pollVars == <<inflight, anchor, sent, limit>>

vars == <<reducerVars, withdrawVars, pollVars>>

\* no withdraw call has been made
NoCall == [type |-> "none"]

NoAction == [type |-> "none"]

Init ==
  /\ state = initialState
  /\ prev = initialState
  /\ action = NoAction
  /\ result = initialState
  /\ attempt = Undefined
  /\ stale = {}
  /\ passed = state
  /\ httpRequest = NoCall
  /\ httpResponse = NoCall
  /\ outcome = NoCall
  /\ inflight = {}
  /\ anchor = "pending"
  /\ sent = 0
  /\ limit = 1

\* the values a property value is made of: the four fields of a details
\* value, the value itself otherwise; undefined is no value
Atoms(v) ==
  IF v = Undefined THEN {}
  ELSE IF v.kind = "details"
       THEN {v.asset, v.withdrawalFormValues, v.method, v.transferServer} \ {Undefined}
       ELSE {v}

\* the values a State holds
Held(s) == UNION {Atoms(s[name]) : name \in DOMAIN s \ {"step"}}

\* the values an action carries
Payload(a) == UNION {Atoms(a[name]) : name \in DOMAIN a \ {"type"}}

\* The caller feeds one action to the reducer; when the reducer throws the
\* caller still holds the state it passed in.
Transition(a) ==
  LET r == stateMachine(state, a) IN
  /\ prev' = state
  /\ action' = a
  /\ result' = r
  /\ state' = IF Thrown(r) THEN state ELSE r
  /\ attempt' = CASE Thrown(r) -> attempt
                  [] a.type = "save-init-form" -> AssembleDetails(a)
                  [] a.type = "after-tx-submission" -> Undefined
                  [] OTHER -> attempt
  /\ stale' = IF a.type = "after-tx-submission" /\ ~Thrown(r)
              THEN Held(state)
              ELSE stale \ Payload(a)
  /\ passed' = ArgumentAfter(state, a)

Dispatch(a) == Transition(a) /\ UNCHANGED <<withdrawVars, pollVars>>

BackToStart == Dispatch(backToStart)

SaveInitForm ==
  \E t \in TransferServers, a \in Assets, m \in Methods, f \in FormValues,
     w \in Challenges \cup {Undefined} :
    Dispatch(saveInitFormData(t, a, m, f, w))

SetAuthToken == \E token \in Tokens \cup {Undefined} : Dispatch(setAuthToken(token))

StartInteractiveKYC == \E r \in InteractiveResponses : Dispatch(startInteractiveKYC(r))

KYCPending == \E r \in PendingResponses : Dispatch(pendingKYC(r))

KYCDenied == \E r \in DeniedResponses : Dispatch(failedKYC(r))

KYCSuccessful == \E r \in SuccessResponses : Dispatch(successfulKYC(r))

TransactionSubmitted == Dispatch(transactionSubmitted)

ForeignAction == Dispatch(foreignAction)

Next ==
  \/ BackToStart
  \/ SaveInitForm
  \/ SetAuthToken
  \/ StartInteractiveKYC
  \/ KYCPending
  \/ KYCDenied
  \/ KYCSuccessful
  \/ TransactionSubmitted
  \/ ForeignAction

Spec == Init /\ [][Next]_vars

\* ------------------------------------------------- every State of the union
\* Partial<GeneralWithdrawalDetails>: any field may be missing
PartialDetails ==
  { [asset |-> a, kind |-> "details", method |-> m, transferServer |-> t,
     withdrawalFormValues |-> f] :
      a \in Assets \cup {Undefined}, f \in FormValues \cup {Undefined},
      m \in Methods \cup {Undefined}, t \in TransferServers \cup {Undefined} }

\* the objects that extend `base` by the optional property `name`: left out,
\* or set to undefined or to one of `values`
WithOptional(base, name, values) ==
  {base} \cup {Spread(base, name :> v) : v \in values \cup {Undefined}}

InitialStates == WithOptional([step |-> "initial"], "details", PartialDetails)

BeforeWebauthStates ==
  UNION { WithOptional([details |-> d, step |-> "before-webauth"], "webauth", Challenges) :
            d \in GeneralWithdrawalDetails }

AfterWebauthStates ==
  UNION { WithOptional([details |-> d, step |-> "after-webauth"], "authToken", Tokens) :
            d \in GeneralWithdrawalDetails }

BeforeInteractiveStates ==
  { [details |-> d, kyc |-> r, step |-> "before-interactive-kyc"] :
      d \in GeneralWithdrawalDetails, r \in InteractiveResponses }

PendingKYCStates ==
  { [details |-> d, kycStatus |-> r, step |-> "pending-kyc"] :
      d \in GeneralWithdrawalDetails, r \in PendingResponses }

AfterDeniedKYCStates ==
  { [details |-> d, rejection |-> r, step |-> "after-denied-kyc"] :
      d \in GeneralWithdrawalDetails, r \in DeniedResponses }

AfterSuccessfulKYCStates ==
  UNION { WithOptional([details |-> d, step |-> "after-successful-kyc", withdrawal |-> r],
                       "authToken", Tokens) :
            d \in GeneralWithdrawalDetails, r \in SuccessResponses }

AfterTransactionStates == {[step |-> "after-tx-submission"]}

\* type State
States ==
  InitialStates \cup BeforeWebauthStates \cup AfterWebauthStates \cup
  BeforeInteractiveStates \cup PendingKYCStates \cup AfterDeniedKYCStates \cup
  AfterSuccessfulKYCStates \cup AfterTransactionStates

\* stateMachine is an exported pure function: a caller may pass it any value
\* of type State
InitAny ==
  /\ state \in States
  /\ prev = state
  /\ action = NoAction
  /\ result = state
  /\ attempt = Undefined
  /\ stale = {}
  /\ passed = state
  /\ httpRequest = NoCall
  /\ httpResponse = NoCall
  /\ outcome = NoCall
  /\ inflight = {}
  /\ anchor = "pending"
  /\ sent = 0
  /\ limit = 1

SpecAny == InitAny /\ [][Next]_vars

KYCActionTypes == {"start-interactive-kyc", "kyc-pending", "kyc-denied", "kyc-successful"}

DetailBearingSteps ==
  { "before-webauth", "after-webauth", "before-interactive-kyc", "pending-kyc",
    "after-denied-kyc", "after-successful-kyc" }

TypeOK ==
  /\ DOMAIN state \cup DOMAIN prev \subseteq PropertiesOf("State")
  /\ DOMAIN action \subseteq PropertiesOf("Action")
  /\ DOMAIN result \subseteq PropertiesOf("State") \cup PropertiesOf("error")
  /\ state.step \in Steps
  /\ prev.step \in Steps

\* ------------------------------------------------------------------ claims
\* the step each KYC action leads to and the property that takes its payload
KYCStep(type) ==
  CASE type = "start-interactive-kyc" -> "before-interactive-kyc"
    [] type = "kyc-pending" -> "pending-kyc"
    [] type = "kyc-denied" -> "after-denied-kyc"
    [] type = "kyc-successful" -> "after-successful-kyc"

KYCField(type) ==
  CASE type = "start-interactive-kyc" -> "kyc"
    [] type = "kyc-pending" -> "kycStatus"
    [] type = "kyc-denied" -> "rejection"
    [] type = "kyc-successful" -> "withdrawal"

\* the last call threw and the caller holds the state it passed in
Failed == Thrown(result) /\ state = prev

\* the last call returned the state the caller now holds
Succeeded == ~Thrown(result) /\ state = result

\* C1: set-auth-token on a before-webauth state yields after-webauth with
\* authToken equal to the token and the same details; on a state of any other
\* step it throws the illegal-transition error and produces no state.
C1_SetAuthToken ==
  action.type = "set-auth-token" =>
    IF prev.step = "before-webauth"
    THEN /\ Succeeded
         /\ state.step = "after-webauth"
         /\ Get(state, "authToken") = action.token
         /\ In("details", state)
         /\ state.details = prev.details
    ELSE Failed /\ result = CannotSetAuthToken

C1_Witness ==
  /\ action.type = "set-auth-token"
  /\ action.token \in Tokens
  /\ prev.step = "before-webauth"
  /\ Get(prev, "webauth") \in Challenges
  /\ state.step = "after-webauth"
  /\ state.authToken = action.token

\* the state Scenario A is in after its save-init-form without a challenge
ScenarioAStates ==
  { stateMachine(initialState, saveInitFormData(t, a, m, f, Undefined)) :
      t \in TransferServers, a \in Assets, m \in Methods, f \in FormValues }

Tok1 == [id |-> 1, kind |-> "token"]

\* C2 as stated: in Scenario A, after save-init-form without a webauth
\* challenge from the initial state, set-auth-token("tok1") yields a state with
\* step after-webauth and authToken "tok1".
C2_ScenarioA_AsStated ==
  (action = setAuthToken(Tok1) /\ prev \in ScenarioAStates) =>
    /\ Succeeded
    /\ state.step = "after-webauth"
    /\ Get(state, "authToken") = Tok1

\* C2 amended: from the initial state, save-init-form without a webauth
\* challenge yields after-webauth with authToken absent, and a following
\* set-auth-token("tok1") throws the illegal-transition error, leaving the
\* caller with that after-webauth state and no token.
C2_ScenarioA ==
  /\ (action.type = "save-init-form" /\ action.webauth = Undefined /\ prev = initialState) =>
       /\ Succeeded
       /\ state \in ScenarioAStates
       /\ state.step = "after-webauth"
       /\ Get(state, "authToken") = Undefined
  /\ (action = setAuthToken(Tok1) /\ prev \in ScenarioAStates) =>
       /\ Failed
       /\ result = CannotSetAuthToken
       /\ state.step = "after-webauth"
       /\ Get(state, "authToken") = Undefined

C2_Witness ==
  /\ action = setAuthToken(Tok1)
  /\ prev \in ScenarioAStates
  /\ attempt = prev.details
  /\ Thrown(result)

\* C3: each of the four KYC actions on a state with step initial throws the
\* illegal-transition error, whether the state has no details, undefined
\* details, partial details or full details; no state past initial ever holds
\* undefined details.
C3_KYCFromInitial ==
  /\ (action.type \in KYCActionTypes /\ prev.step = "initial") =>
       Failed /\ result = CannotPerform(action.type, "initial")
  /\ state.step \in DetailBearingSteps => Get(state, "details") # Undefined

C3_Witness ==
  /\ action.type = "kyc-denied"
  /\ prev.step = "initial"
  /\ Get(prev, "details") \in PartialDetails
  /\ Thrown(result)
  /\ state.step = "initial"

\* C4: in every state reachable from initialState whose step is neither
\* initial nor after-tx-submission, details is present with all four fields
\* populated; a set-auth-token or KYC action on a state without details throws.
C4_DetailsInvariant ==
  /\ state.step \notin {"initial", "after-tx-submission"} =>
       In("details", state) /\ state.details \in GeneralWithdrawalDetails
  /\ ( /\ action.type \in KYCActionTypes \cup {"set-auth-token"}
       /\ Get(prev, "details") = Undefined ) => Failed

C4_Witness ==
  /\ action.type = "kyc-pending"
  /\ prev.step = "after-tx-submission"
  /\ Thrown(result)
  /\ state = prev

\* C5: a KYC action on a state of one of the six detail-bearing steps succeeds;
\* the result has the step of the action, the details of the state it was
\* applied to and the action's payload in the property of that step.
C5_KYCCarriesDetails ==
  (action.type \in KYCActionTypes /\ prev.step \in DetailBearingSteps) =>
    /\ Succeeded
    /\ state.step = KYCStep(action.type)
    /\ state.details = prev.details
    /\ state[KYCField(action.type)] = action.response

C5_Witness ==
  /\ action.type = "kyc-successful"
  /\ prev.step = "before-interactive-kyc"
  /\ state.step = "after-successful-kyc"
  /\ state.withdrawal = action.response
  /\ state.details = prev.details

\* C6: after a save-init-form that assembled details D, every state reached
\* by successful set-auth-token, KYC and back-to-start actions, and by failed
\* ones, carries details D until the next save-init-form or
\* after-tx-submission; so does the initial state back-to-start gives after
\* kyc-pending and kyc-denied.
C6_DetailsCarried ==
  attempt # Undefined => (In("details", state) /\ state.details = attempt)

C6_Witness ==
  /\ attempt \in GeneralWithdrawalDetails
  /\ action = backToStart
  /\ prev.step = "after-denied-kyc"
  /\ Get(prev, "rejection") \in DeniedResponses
  /\ state.step = "initial"
  /\ state.details = attempt

\* C7: back-to-start never throws; the result has step initial, its details is
\* the details of the state it was applied to (undefined when that state has
\* none) and it owns no property other than step and details.
C7_BackToStart ==
  action = backToStart =>
    /\ Succeeded
    /\ state.step = "initial"
    /\ Get(state, "details") = Get(prev, "details")
    /\ DOMAIN state \subseteq {"step", "details"}

C7_Witness ==
  /\ action = backToStart
  /\ prev.step = "after-webauth"
  /\ Get(prev, "authToken") \in Tokens
  /\ Get(prev, "webauth") \in Challenges
  /\ state.step = "initial"
  /\ state.details = prev.details

\* C8: back-to-start applied to the result of back-to-start returns that
\* result again.
C8_BackToStartIdempotent ==
  (action = backToStart /\ ~Thrown(result)) =>
    stateMachine(result, backToStart) = result

C8_Witness ==
  /\ action = backToStart
  /\ prev.step = "initial"
  /\ Get(prev, "details") \in GeneralWithdrawalDetails
  /\ state = prev

\* C9: after-tx-submission never throws; from a state of any step the result
\* is the object whose only property is step = after-tx-submission.
C9_AfterTxSubmission ==
  action = transactionSubmitted =>
    /\ Succeeded
    /\ DOMAIN state = {"step"}
    /\ state.step = "after-tx-submission"

C9_Witness ==
  /\ action = transactionSubmitted
  /\ prev.step = "pending-kyc"
  /\ Get(prev, "kycStatus") \in PendingResponses
  /\ state = [step |-> "after-tx-submission"]

\* C10: back-to-start on the state after-tx-submission left yields initial
\* with details absent, and no state holds a value that the state held when
\* the last after-tx-submission was applied unless an action issued after it
\* carried that value.
C10_NoLeak ==
  /\ (action = backToStart /\ prev.step = "after-tx-submission") =>
       state.step = "initial" /\ Get(state, "details") = Undefined
  /\ Held(state) \cap stale = {}

C10_Witness ==
  /\ stale # {}
  /\ state.step \in DetailBearingSteps
  /\ Held(state) # {}

\* C11: save-init-form never throws; from a state of any step the result is,
\* when the action carries a webauth challenge, before-webauth with that
\* challenge and details made of the action's asset, form values, method and
\* transfer server, and otherwise after-webauth with the same details and no
\* auth token; it owns no other property, so nothing of the previous state is
\* carried over.
C11_SaveInitForm ==
  action.type = "save-init-form" =>
    /\ Succeeded
    /\ state.details.asset = action.asset
    /\ state.details.withdrawalFormValues = action.formValues
    /\ state.details.method = action.method
    /\ state.details.transferServer = action.transferServer
    /\ IF action.webauth # Undefined
       THEN /\ state.step = "before-webauth"
            /\ DOMAIN state = {"details", "step", "webauth"}
            /\ state.webauth = action.webauth
       ELSE /\ state.step = "after-webauth"
            /\ DOMAIN state = {"authToken", "details", "step"}
            /\ state.authToken = Undefined

C11_Witness ==
  /\ action.type = "save-init-form"
  /\ action.webauth \in Challenges
  /\ prev.step = "after-successful-kyc"
  /\ Get(prev, "authToken") \in Tokens
  /\ prev.details # state.details
  /\ state.step = "before-webauth"

\* the properties that hold KYC data and the step each belongs to
KYCFields == {"kyc", "kycStatus", "rejection", "withdrawal"}

KYCFieldOfStep(step) ==
  CASE step = "before-interactive-kyc" -> {"kyc"}
    [] step = "pending-kyc" -> {"kycStatus"}
    [] step = "after-denied-kyc" -> {"rejection"}
    [] step = "after-successful-kyc" -> {"withdrawal"}
    [] OTHER -> {}

\* C12: in every state reachable from initialState, a before-webauth state
\* owns no authToken, and the KYC properties the state owns (kyc, kycStatus,
\* rejection, withdrawal) are at most the one that belongs to its step.
C12_NoHybrid ==
  /\ state.step = "before-webauth" => ~In("authToken", state)
  /\ DOMAIN state \cap KYCFields = KYCFieldOfStep(state.step)

C12_Witness ==
  /\ action.type = "kyc-denied"
  /\ prev.step = "before-interactive-kyc"
  /\ In("kyc", prev)
  /\ state.step = "after-denied-kyc"
  /\ DOMAIN state \cap KYCFields = {"rejection"}

\* C13 as stated: once the step is after-denied-kyc, no start-interactive-kyc,
\* kyc-pending, kyc-successful or set-auth-token action moves it to another
\* step.
C13_DeniedTerminal_AsStated ==
  ( /\ prev.step = "after-denied-kyc"
    /\ action.type \in {"start-interactive-kyc", "kyc-pending", "kyc-successful",
                        "set-auth-token"} ) =>
    state.step = "after-denied-kyc"

\* C13 amended: from after-denied-kyc, set-auth-token throws and leaves the
\* state as it is, while start-interactive-kyc, kyc-pending and kyc-successful
\* succeed and move the step to before-interactive-kyc, pending-kyc and
\* after-successful-kyc with the same details; the reducer does not enforce
\* that after-denied-kyc is terminal.
C13_DeniedNotEnforced ==
  prev.step = "after-denied-kyc" =>
    /\ action.type = "set-auth-token" => (Failed /\ result = CannotSetAuthToken)
    /\ action.type \in KYCActionTypes =>
         /\ Succeeded
         /\ state.step = KYCStep(action.type)
         /\ state.details = prev.details
    /\ state.step # "after-denied-kyc" =>
         action.type \in (KYCActionTypes \ {"kyc-denied"}) \cup
                         {"back-to-start", "save-init-form", "after-tx-submission"}

C13_Witness ==
  /\ prev.step = "after-denied-kyc"
  /\ action.type = "kyc-pending"
  /\ state.step = "pending-kyc"
  /\ state.details = prev.details

\* C14: from after-tx-submission, set-auth-token and the four KYC actions
\* throw; after-tx-submission returns the same state, back-to-start returns
\* initial without details and save-init-form starts a new attempt.
C14_AfterTxTerminal ==
  prev.step = "after-tx-submission" =>
    /\ action.type \in KYCActionTypes \cup {"set-auth-token"} => Failed
    /\ ~Thrown(result) =>
         action.type \in {"after-tx-submission", "back-to-start", "save-init-form", "none"}
    /\ action.type = "after-tx-submission" => (Succeeded /\ state = prev)
    /\ action.type = "back-to-start" =>
         (Succeeded /\ state.step = "initial" /\ Get(state, "details") = Undefined)
    /\ action.type = "save-init-form" =>
         (Succeeded /\ state.step \in {"before-webauth", "after-webauth"})

C14_Witness ==
  /\ prev.step = "after-tx-submission"
  /\ action.type = "set-auth-token"
  /\ action.token \in Tokens
  /\ result = CannotSetAuthToken
  /\ state = prev

\* the tags of the Action union
ActionTypes ==
  { "back-to-start", "save-init-form", "set-auth-token", "start-interactive-kyc",
    "kyc-pending", "kyc-denied", "kyc-successful", "after-tx-submission" }

\* C16: for every state, an action whose tag is outside the eight tags of the
\* Action union makes the reducer throw the unexpected-action error naming the
\* tag; it never returns a state.
C16_UnexpectedAction ==
  (action.type \notin ActionTypes /\ action # NoAction) =>
    /\ Thrown(result)
    /\ result = UnexpectedAction(action.type)
    /\ state = prev

C16_Witness ==
  /\ action = foreignAction
  /\ prev.step = "pending-kyc"
  /\ result = UnexpectedAction("foreign-action")
  /\ state = prev

\* C19 as stated: every state with step after-webauth reachable from
\* initialState owns only details, step and possibly authToken; in particular
\* no reachable state holds both an authToken and a webauth challenge.
C19_AfterWebauthShape ==
  /\ state.step = "after-webauth" => DOMAIN state \subseteq {"authToken", "details", "step"}
  /\ ~(In("authToken", state) /\ Get(state, "webauth") \in Challenges)

\* C20: in every state reachable from initialState with step
\* after-successful-kyc the authToken is absent, and a KYC action that succeeds
\* returns a state that owns only details, step and the property of its step,
\* so the token and the webauth challenge of the state it was applied to are
\* dropped.
C20_TokenDropped ==
  /\ state.step = "after-successful-kyc" => ~In("authToken", state)
  /\ (action.type \in KYCActionTypes /\ ~Thrown(result)) =>
       /\ DOMAIN state = {"details", "step", KYCField(action.type)}
       /\ Get(state, "authToken") = Undefined
       /\ Get(state, "webauth") = Undefined

C20_Witness ==
  /\ action.type = "kyc-successful"
  /\ prev.step = "after-webauth"
  /\ Get(prev, "authToken") \in Tokens
  /\ Get(prev, "webauth") \in Challenges
  /\ state.step = "after-successful-kyc"
  /\ ~In("authToken", state)

Null == [kind |-> "null"]

AuthTokenArguments == Tokens \cup {Null, Undefined}

\* the status codes an anchor may answer with
Statuses == {200, 201, 400, 403, 404, 500}

\* the message an anchor may put in the body of its answer
AnchorMessages == {[id |-> 1, kind |-> "message"]}

\* the bodies of an answer: none, an object without a message, an object with one
Bodies ==
  {Undefined, [kind |-> "body"]}
    \cup {[kind |-> "body", message |-> m] : m \in AnchorMessages}

\* the headers and the query parameters of the request
RequestOf(type, assetCode, authToken) ==
  [ asset_code |-> assetCode,
    authorization |-> IF Truthy(authToken) /\ authToken # Null
                        THEN authToken ELSE Undefined,
    type |-> type ]

validateStatus(status) == status = 200 \/ status = 201 \/ status = 403

\* the errors of a withdraw call
RequestFailed(response) ==
  [response |-> response, status |-> response.status,
   throws |-> "Request failed with status code"]

AnchorResponded(status, message) ==
  [message |-> message, status |-> status,
   throws |-> "Anchor responded with status code"]

UnexpectedStatus(status) ==
  [status |-> status, throws |-> "Anchor responded with unexpected status code"]

\* axios settles the request: it resolves with the response when validateStatus
\* accepts the status and rejects with its own error otherwise
axios(response) ==
  IF validateStatus(response.status) THEN response ELSE RequestFailed(response)

\* what withdraw() does with the settled request; a rejection of the awaited
\* request propagates to the caller
withdraw(settled) ==
  IF Thrown(settled) THEN settled
  ELSE IF settled.status = 200 THEN [data |-> settled.data, type |-> "success"]
  ELSE IF settled.status = 403 THEN [data |-> settled.data, type |-> "kyc"]
  ELSE IF Truthy(settled.data) /\ Truthy(Get(settled.data, "message"))
    THEN AnchorResponded(settled.status, settled.data.message)
  ELSE UnexpectedStatus(settled.status)

\* one call of withdraw() and the anchor's answer to it
Withdraw ==
  \E type \in Methods, assetCode \in Assets, authToken \in AuthTokenArguments,
     status \in Statuses, data \in Bodies :
    LET response == [data |-> data, status |-> status] IN
      /\ httpRequest' = RequestOf(type, assetCode, authToken)
      /\ httpResponse' = response
      /\ outcome' = withdraw(axios(response))
      /\ UNCHANGED <<reducerVars, pollVars>>

NextWithdraw == Withdraw

SpecWithdraw == Init /\ [][NextWithdraw]_vars

\* the anchor's answer has a body with a message
HasMessage(response) ==
  Truthy(response.data) /\ Truthy(Get(response.data, "message"))

\* C18: status 200 gives a result of type success, status 403 a result of type
\* kyc, and every other status is a failure whose error carries the anchor's
\* message when the body has one and a generic message without it otherwise;
\* no status other than 200 and 403 yields a result.
C18_StatusMapping ==
  httpResponse # NoCall =>
    /\ httpResponse.status = 200 =>
         outcome = [data |-> httpResponse.data, type |-> "success"]
    /\ httpResponse.status = 403 =>
         outcome = [data |-> httpResponse.data, type |-> "kyc"]
    /\ httpResponse.status \notin {200, 403} =>
         /\ Thrown(outcome)
         /\ IF HasMessage(httpResponse)
              THEN Get(outcome, "message") = httpResponse.data.message
              ELSE ~In("message", outcome)
    /\ ~Thrown(outcome) => httpResponse.status \in {200, 403}

\* ---------------------------------------------------------------------------
\* The orchestrator polling the KYC status of one attempt.  Each status call
\* is answered with the status the anchor has when it is issued, and its
\* resolution feeds exactly one action into the reducer; calls in flight
\* resolve in any order.

\* the states from which an orchestrator polls: the attempt has been saved and
\* the anchor has not yet denied it
PollingStates ==
  {s \in States : s.step \in {"after-webauth", "before-interactive-kyc", "pending-kyc"}}

InitPoll ==
  /\ state \in PollingStates
  /\ prev = state
  /\ action = NoAction
  /\ result = state
  /\ attempt = Undefined
  /\ stale = {}
  /\ passed = state
  /\ httpRequest = NoCall
  /\ httpResponse = NoCall
  /\ outcome = NoCall
  /\ inflight = {}
  /\ anchor = "pending"
  /\ sent = 0
  /\ limit \in 1..MaxInFlight

\* the orchestrator issues a call only while fewer than `limit` are in flight
MayIssue == sent < MaxCalls /\ Cardinality(inflight) < limit

\* the call is answered with the anchor's current status
IssueStatusCall ==
  /\ MayIssue
  /\ \E r \in IF anchor = "pending" THEN PendingResponses ELSE DeniedResponses :
       inflight' = inflight \cup
         {[ response |-> r, seq |-> sent + 1,
            type |-> IF anchor = "pending" THEN "kyc-pending" ELSE "kyc-denied" ]}
  /\ sent' = sent + 1
  /\ UNCHANGED <<reducerVars, withdrawVars, anchor, limit>>

\* the anchor denies the KYC; it does not go back to pending
AnchorDenies ==
  /\ anchor = "pending"
  /\ anchor' = "denied"
  /\ UNCHANGED <<reducerVars, withdrawVars, inflight, sent, limit>>

\* the action a resolved call feeds into the reducer
ActionOf(call) ==
  IF call.type = "kyc-pending" THEN pendingKYC(call.response)
                               ELSE failedKYC(call.response)

\* a call in flight resolves and its action is fed to the reducer
Deliver ==
  \E call \in inflight :
    /\ Transition(ActionOf(call))
    /\ inflight' = inflight \ {call}
    /\ UNCHANGED <<withdrawVars, anchor, sent, limit>>

NextPoll ==
  \/ IssueStatusCall
  \/ AnchorDenies
  \/ Deliver

SpecPoll == InitPoll /\ [][NextPoll]_vars

\* C15: every delivery of a status call's action is accepted by the reducer
\* and the state after it is the one of the action delivered last, so the final
\* state depends on the order of delivery; with at most one call in flight a
\* kyc-pending is never delivered in after-denied-kyc.
C15_DeliveryOrder ==
  action # NoAction =>
    /\ ~Thrown(result)
    /\ state.step = KYCStep(action.type)
    /\ limit = 1 => ~(prev.step = "after-denied-kyc" /\ action.type = "kyc-pending")

\* with two calls in flight the stale kyc-pending is delivered after the newer
\* kyc-denied and the state goes back to pending-kyc without a failure
C15_Witness ==
  /\ limit = 2
  /\ sent = 2
  /\ inflight = {}
  /\ prev.step = "after-denied-kyc"
  /\ action.type = "kyc-pending"
  /\ ~Thrown(result)
  /\ state.step = "pending-kyc"

====
